---------------------------- MODULE Spec2Model ----------------------------
(***************************************************************************)
(* A model of the SQL back end of ibis (src/ibis/sql/compiler.py):         *)
(*   QueryContext      the alias map of one compilation                    *)
(*   ExprTranslator    scalar expressions to SQL fragments                 *)
(*   Select            the clause formatters and compile                   *)
(*   _JoinFormatter    linearization of a tree of binary joins             *)
(*   QueryASTBuilder   expression IR to Select                             *)
(*                                                                         *)
(* IR nodes are records tagged by kind (the class of the operation         *)
(* node).  A value expression carries type (the class of the typed         *)
(* wrapper: BooleanValue, Int64Value, ...).  A node is its own identity:   *)
(* id(node) is modelled by the record.  Physical tables carry an explicit  *)
(* id so that two tables of the same name are two nodes, and any other     *)
(* node that is built twice carries obj (see Object), so that the two      *)
(* objects are two records of one structure.                               *)
(*                                                                         *)
(* A value that may be Python's None (an alias looked up, the name of a    *)
(* table, the name of an expression, a limit) is NoneValue or Some(v).     *)
(*                                                                         *)
(* A SQL fragment is a record [s, t]: s is the string the code returns and *)
(* t the sequence of its lexical tokens, built side by side.               *)
(***************************************************************************)
EXTENDS Integers, Sequences, FiniteSets, TLC

VARIABLES
    expr,           \* the expression handed in (QueryASTBuilder.expr, ExprTranslator.expr, _JoinFormatter.expr)
    table_aliases,  \* QueryContext.table_aliases
    queries,        \* QueryASTBuilder.queries
    select,         \* the Select being rendered
    result,         \* what the last call returned or raised
    calls           \* number of calls made so far

vars == <<expr, table_aliases, queries, select, result, calls>>

\* An optional value: Python's None, or a value.
NoneValue == [isNone |-> TRUE]
Some(v) == [isNone |-> FALSE, v |-> v]

\* '{}'.format(x) of an optional string: None is written as the text None.
Str(x) == IF x.isNone THEN "None" ELSE x.v

\* The node, as the object number n of its structure.
Object(node, n) == node @@ [obj |-> n]

\* A call that raised: the exception class.
Raise(e) == [ok |-> FALSE, err |-> e]

\* A call that returned the value v.
Returned(v) == [ok |-> TRUE, v |-> v]

\* The record r, tagged with the call it is the outcome of.
Outcome(call, r) == [call |-> call] @@ r

\* A returned SQL fragment.
Frag(s, t) == [ok |-> TRUE, s |-> s, t |-> t]

-----------------------------------------------------------------------------
(* QueryContext *)

\* id(table.op()): the node itself, with the identity it carries
_get_table_key(table) == table

has_alias(ctx, table_expr) == _get_table_key(table_expr) \in DOMAIN ctx

need_aliases(ctx) == Cardinality(DOMAIN ctx) > 1

set_alias(ctx, table_expr, alias) ==
    LET key == _get_table_key(table_expr)
    IN  [k \in DOMAIN ctx \cup {key} |-> IF k = key THEN alias ELSE ctx[k]]

make_alias(ctx, table_expr) ==
    LET i == Cardinality(DOMAIN ctx)
        alias == "t" \o ToString(i)
    IN  set_alias(ctx, table_expr, alias)

get_alias(ctx, table_expr) ==
    LET key == _get_table_key(table_expr)
    IN  IF key \in DOMAIN ctx THEN Some(ctx[key]) ELSE NoneValue

-----------------------------------------------------------------------------
(* Scalar expression formatting *)

_sql_type_names ==
    [int8 |-> "tinyint", int16 |-> "smallint", int32 |-> "int",
     int64 |-> "bigint", float |-> "float", double |-> "double",
     string |-> "string", boolean |-> "boolean"]

\* isinstance(expr, ir.BooleanValue) and its siblings
IsBooleanValue(e) == e.type = "boolean"
IsStringValue(e) == e.type = "string"
IsNumericValue(e) == e.type \in {"int8", "int16", "int32", "int64", "float", "double"}

_parenthesize(what) == Frag("(" \o what.s \o ")", <<"(">> \o what.t \o <<")">>)

_name_expr(formatted_expr, quoted_name) ==
    Frag(formatted_expr.s \o " AS " \o quoted_name,
         formatted_expr.t \o <<"AS", quoted_name>>)

\* str.count(ch): the number of places of the text that hold the character
count(text, ch) == Cardinality({i \in 1..Len(text) : SubSeq(text, i, i) = ch})

\* The default quotechar of _quote_field is the backquote (U+0060), which a
\* TLA+ string cannot hold: the double quote stands for it.
quotechar == "\""

_quote_field(name) ==
    IF count(name, " ") /= 0 THEN quotechar \o name \o quotechar ELSE name

_boolean_literal_format(e) ==
    LET s == IF e.value THEN "TRUE" ELSE "FALSE" IN Frag(s, <<s>>)

_number_literal_format(e) ==
    LET s == ToString(e.value) IN Frag(s, <<s>>)

\* value.replace("'", "\\'"), from the place i of the value on
RECURSIVE EscapeQuotesFrom(_, _)
EscapeQuotesFrom(v, i) ==
    IF i > Len(v) THEN ""
    ELSE (IF SubSeq(v, i, i) = "'" THEN "\\'" ELSE SubSeq(v, i, i))
         \o EscapeQuotesFrom(v, i + 1)

EscapeQuotes(v) == EscapeQuotesFrom(v, 1)

_string_literal_format(e) ==
    LET s == "'" \o EscapeQuotes(e.value) \o "'" IN Frag(s, <<s>>)

_unary_ops ==
    [NotNull |-> [f |-> "_not_null", a |-> ""],
     IsNull  |-> [f |-> "_is_null", a |-> ""],
     Negate  |-> [f |-> "_negate", a |-> ""],
     Exp     |-> [f |-> "_unary_op", a |-> "exp"],
     Sqrt    |-> [f |-> "_unary_op", a |-> "sqrt"],
     Log     |-> [f |-> "_unary_op", a |-> "log"],
     Log2    |-> [f |-> "_unary_op", a |-> "log2"],
     Log10   |-> [f |-> "_unary_op", a |-> "log10"],
     Mean    |-> [f |-> "_unary_op", a |-> "avg"],
     Sum     |-> [f |-> "_unary_op", a |-> "sum"]]

_binary_infix_ops ==
    [Add          |-> [f |-> "_binary_infix_op", a |-> "+"],
     Subtract     |-> [f |-> "_binary_infix_op", a |-> "-"],
     Multiply     |-> [f |-> "_binary_infix_op", a |-> "*"],
     Divide       |-> [f |-> "_binary_infix_op", a |-> "/"],
     Power        |-> [f |-> "_binary_infix_op", a |-> "^"],
     And          |-> [f |-> "_binary_infix_op", a |-> "AND"],
     Or           |-> [f |-> "_binary_infix_op", a |-> "OR"],
     Xor          |-> [f |-> "_xor", a |-> ""],
     Equals       |-> [f |-> "_binary_infix_op", a |-> "="],
     NotEquals    |-> [f |-> "_binary_infix_op", a |-> "!="],
     GreaterEqual |-> [f |-> "_binary_infix_op", a |-> ">="],
     Greater      |-> [f |-> "_binary_infix_op", a |-> ">"],
     LessEqual    |-> [f |-> "_binary_infix_op", a |-> "<="],
     Less         |-> [f |-> "_binary_infix_op", a |-> "<"]]

_other_ops == [Cast |-> [f |-> "_cast", a |-> ""]]

\* dict.update: a later table overrides an earlier one
_operation_registry == _other_ops @@ _binary_infix_ops @@ _unary_ops

\* _needs_parens with Negate in the set only when it is numeric
_needs_parens_numeric_negate(op) ==
    \/ op.kind \in DOMAIN _binary_infix_ops
    \/ (op.kind \in {"Negate"} /\ IsNumericValue(op))

_needs_parens(op) ==
    \/ op.kind \in DOMAIN _binary_infix_ops
    \/ op.kind \in {"Negate"}

RECURSIVE translate(_, _)

_cast(ctx, e) ==
    LET arg == translate(ctx, e.value_expr)
    IN  IF ~arg.ok THEN arg
        ELSE IF e.target_type \notin DOMAIN _sql_type_names THEN Raise("KeyError")
        ELSE LET sql_type == _sql_type_names[e.target_type]
             IN  Frag("CAST(" \o arg.s \o " AS " \o sql_type \o ")",
                      <<"CAST", "(">> \o arg.t \o <<"AS", sql_type, ")">>)

_is_null(ctx, e) ==
    LET formatted_arg == translate(ctx, e.arg)
    IN  IF ~formatted_arg.ok THEN formatted_arg
        ELSE Frag(formatted_arg.s \o " IS NULL", formatted_arg.t \o <<"IS", "NULL">>)

_not_null(ctx, e) ==
    LET formatted_arg == translate(ctx, e.arg)
    IN  IF ~formatted_arg.ok THEN formatted_arg
        ELSE Frag(formatted_arg.s \o " IS NOT NULL",
                  formatted_arg.t \o <<"IS", "NOT", "NULL">>)

_negate(ctx, e) ==
    LET arg == e.arg
        formatted_arg == translate(ctx, arg)
    IN  IF ~formatted_arg.ok THEN formatted_arg
        ELSE IF IsBooleanValue(e)
        THEN Frag("NOT " \o formatted_arg.s, <<"NOT">> \o formatted_arg.t)
        ELSE LET p == IF _needs_parens(arg) THEN _parenthesize(formatted_arg)
                      ELSE formatted_arg
             IN  Frag("-" \o p.s, <<"-">> \o p.t)

_unary_op(func_name, ctx, e) ==
    LET arg == translate(ctx, e.arg)
    IN  IF ~arg.ok THEN arg
        ELSE Frag(func_name \o "(" \o arg.s \o ")",
                  <<func_name, "(">> \o arg.t \o <<")">>)

_binary_infix_op(infix_sym, ctx, e) ==
    LET l == translate(ctx, e.left)
        r == translate(ctx, e.right)
        left_arg == IF _needs_parens(e.left) THEN _parenthesize(l) ELSE l
        right_arg == IF _needs_parens(e.right) THEN _parenthesize(r) ELSE r
    IN  IF ~l.ok THEN l
        ELSE IF ~r.ok THEN r
        ELSE Frag(left_arg.s \o " " \o infix_sym \o " " \o right_arg.s,
                  left_arg.t \o <<infix_sym>> \o right_arg.t)

\* _xor without the rewrite: the operator written as an infix XOR
_xor_as_infix(ctx, e) == _binary_infix_op("XOR", ctx, e)

_xor(ctx, e) ==
    LET l == translate(ctx, e.left)
        r == translate(ctx, e.right)
        left_arg == IF _needs_parens(e.left) THEN _parenthesize(l) ELSE l
        right_arg == IF _needs_parens(e.right) THEN _parenthesize(r) ELSE r
    IN  IF ~l.ok THEN l
        ELSE IF ~r.ok THEN r
        ELSE Frag("(" \o left_arg.s \o " OR " \o right_arg.s \o ") AND NOT ("
                      \o left_arg.s \o " AND " \o right_arg.s \o ")",
                  <<"(">> \o left_arg.t \o <<"OR">> \o right_arg.t
                      \o <<")", "AND", "NOT", "(">>
                      \o left_arg.t \o <<"AND">> \o right_arg.t \o <<")">>)

_trans_literal(e) ==
    IF IsBooleanValue(e) THEN _boolean_literal_format(e)
    ELSE IF IsStringValue(e) THEN _string_literal_format(e)
    ELSE IF IsNumericValue(e) THEN _number_literal_format(e)
    ELSE Raise("NotImplementedError")

_trans_param(e) == Raise("NotImplementedError")

_trans_column_ref(ctx, e) ==
    LET field_name == _quote_field(e.name)
        alias == get_alias(ctx, e.table)
        s == IF need_aliases(ctx) /\ alias /= NoneValue
             THEN alias.v \o "." \o field_name
             ELSE field_name
    IN  Frag(s, <<s>>)

translate(ctx, e) ==
    IF e.kind = "Literal" THEN _trans_literal(e)
    ELSE IF e.kind = "Parameter" THEN _trans_param(e)
    ELSE IF e.kind = "TableColumn" THEN _trans_column_ref(ctx, e)
    ELSE IF e.kind \in DOMAIN _operation_registry
    THEN LET formatter == _operation_registry[e.kind]
         IN  CASE formatter.f = "_not_null" -> _not_null(ctx, e)
               [] formatter.f = "_is_null" -> _is_null(ctx, e)
               [] formatter.f = "_negate" -> _negate(ctx, e)
               [] formatter.f = "_unary_op" -> _unary_op(formatter.a, ctx, e)
               [] formatter.f = "_binary_infix_op" -> _binary_infix_op(formatter.a, ctx, e)
               [] formatter.f = "_xor" -> _xor(ctx, e)
               [] formatter.f = "_cast" -> _cast(ctx, e)
    ELSE Raise("NotImplementedError")

\* expr.get_name(): the name the expression carries, None when it has none
get_name(e) == IF "ename" \in DOMAIN e THEN Some(e.ename) ELSE NoneValue

_needs_name(named, e) ==
    IF ~named THEN FALSE
    ELSE IF e.kind = "TableColumn"
    THEN (IF get_name(e) /= Some(e.name) THEN TRUE ELSE FALSE)
    ELSE TRUE

\* ExprTranslator.get_result, given the value of self.translate(self.expr)
ExprTranslator_get_result(translated, e, named) ==
    IF ~translated.ok THEN translated
    ELSE IF _needs_name(named, e)
    THEN (IF get_name(e) = NoneValue THEN Raise("ExpressionError")
          ELSE _name_expr(translated, _quote_field(get_name(e).v)))
    ELSE translated

\* translate_expr: ExprTranslator(expr, context, named).get_result()
translate_expr(e, ctx, named) == ExprTranslator_get_result(translate(ctx, e), e, named)

-----------------------------------------------------------------------------
(* Table expressions of the IR, as the compiler reads them *)

\* `x or []`
OrEmptyList(x) == IF x.isNone THEN <<>> ELSE x.v

\* isinstance(expr, ir.TableExpr) / ir.ValueExpr
TableKinds ==
    {"PhysicalTable", "SelfReference", "Projection", "Aggregation", "Filter", "Limit",
     "SortBy", "MaterializedJoin", "InnerJoin", "LeftJoin", "RightJoin", "OuterJoin",
     "LeftAntiJoin", "LeftSemiJoin", "CrossJoin"}
IsTableExpr(e) == e.kind \in TableKinds
IsValueExpr(e) == e.kind \notin TableKinds

\* expr._root_tables(): the relations a table expression reads, in the order
\* of the tree walk (left before right).
RECURSIVE RootTables(_)
RootTables(e) ==
    IF e.kind = "PhysicalTable" THEN <<e>>
    ELSE IF "left" \in DOMAIN e THEN RootTables(e.left) \o RootTables(e.right)
    ELSE RootTables(e.table)

\* ir.collect_modifiers: the Filter / Limit / SortBy nodes stacked on a table,
\* walked from the outside in; filters accumulate, the last limit and the last
\* sort seen win.
RECURSIVE CollectModifiers(_, _)
CollectModifiers(e, acc) ==
    IF e.kind = "Filter"
    THEN CollectModifiers(e.table, [acc EXCEPT !.filters = @ \o e.predicates])
    ELSE IF e.kind = "Limit"
    THEN CollectModifiers(e.table,
             [acc EXCEPT !.limit = Some([n |-> e.n, offset |-> e.offset])])
    ELSE IF e.kind = "SortBy"
    THEN CollectModifiers(e.table, [acc EXCEPT !.sort_by = e.keys])
    ELSE acc

collect_modifiers(e) ==
    CollectModifiers(e, [filters |-> <<>>, limit |-> NoneValue, sort_by |-> <<>>])

\* isinstance(op, ir.Join)
JoinKinds ==
    {"InnerJoin", "LeftJoin", "RightJoin", "OuterJoin", "LeftAntiJoin", "LeftSemiJoin",
     "CrossJoin"}
IsJoin(op) == op.kind \in JoinKinds

\* TableExpr.materialize(): a join that is not materialized yet becomes a
\* MaterializedJoin over the same sides; any other table is returned as is.
materialize(e) ==
    IF IsJoin(e)
    THEN [kind |-> "MaterializedJoin", join |-> e, left |-> e.left, right |-> e.right]
    ELSE e

\* sep.join(pieces)
RECURSIVE Concat(_, _)
Concat(pieces, sep) ==
    IF Len(pieces) = 0 THEN ""
    ELSE IF Len(pieces) = 1 THEN pieces[1]
    ELSE pieces[1] \o sep \o Concat(Tail(pieces), sep)

\* ' ' * n
Spaces(n) == [i \in 1..n |-> " "]
Blank(n) == Concat(Spaces(n), "")

\* The places of the line breaks of a text, and the k-th of them (0 before
\* the first, one past the end of the text after the last).
LineBreaks(text) == {i \in 1..Len(text) : SubSeq(text, i, i) = "\n"}

LineBreak(text, breaks, k) ==
    IF k = 0 THEN 0
    ELSE IF k > Cardinality(breaks) THEN Len(text) + 1
    ELSE CHOOSE i \in breaks : Cardinality({j \in breaks : j < i}) = k - 1

\* text.split('\n'): the pieces between the line breaks of a text
SplitLines(text) ==
    [k \in 1..(Cardinality(LineBreaks(text)) + 1) |->
        SubSeq(text, LineBreak(text, LineBreaks(text), k - 1) + 1,
               LineBreak(text, LineBreaks(text), k) - 1)]

\* util.indent(text, spaces): every line of the text behind the spaces
indent(text, n) ==
    Concat([k \in 1..Len(SplitLines(text)) |-> Blank(n) \o SplitLines(text)[k]], "\n")

-----------------------------------------------------------------------------
(* Select *)

\* Select.__init__
Select(table_set, select_set, where, group_by, order_by, limit, having, subqueries, parent_expr) ==
    [select_set |-> select_set,
     table_set |-> table_set,
     where |-> OrEmptyList(where),
     group_by |-> OrEmptyList(group_by),
     having |-> OrEmptyList(having),
     order_by |-> OrEmptyList(order_by),
     limit |-> limit,
     parent_expr |-> parent_expr,
     subqueries |-> <<>>,
     indent |-> 2]

\* Select.populate_context: the aliases after the loop over the roots.  The
\* subqueries of a Select are always the empty list.
RECURSIVE MakeAliases(_, _)
MakeAliases(ctx, roots) ==
    IF Len(roots) = 0 THEN ctx
    ELSE MakeAliases(make_alias(ctx, Head(roots)), Tail(roots))

populate_context(sel, ctx) == MakeAliases(ctx, RootTables(sel.table_set))

\* Select._all_exprs: the list fields spliced and table_set appended, in the
\* order of expr_attrs
_all_exprs(sel) ==
    sel.select_set \o <<sel.table_set>> \o sel.where \o sel.group_by \o sel.having
        \o sel.order_by \o sel.subqueries

\* The structure of a node: the node without the identity of the objects it
\* is made of.
NodeFields == {"arg", "left", "right", "table", "value_expr", "join"}
NodeListFields == {"predicates", "selections", "by", "agg_exprs", "having"}
RECURSIVE Structure(_)
Structure(e) ==
    [f \in DOMAIN e \ {"obj"} |->
        IF f \in NodeFields THEN Structure(e[f])
        ELSE IF f \in NodeListFields THEN [i \in 1..Len(e[f]) |-> Structure(e[f][i])]
        ELSE e[f]]

\* x.equals(y) of two IR expressions: structural equality
ExprEquals(x, y) == Structure(x) = Structure(y)

\* The length of zip(xs, ys)
ZipLen(xs, ys) == IF Len(xs) < Len(ys) THEN Len(xs) ELSE Len(ys)

\* Select.equals(other), other a Select
equals(self, other) ==
    LET this_exprs == _all_exprs(self)
        other_exprs == _all_exprs(other)
    IN  IF self.limit /= other.limit THEN FALSE
        ELSE \A i \in 1..ZipLen(this_exprs, other_exprs) :
                 ExprEquals(this_exprs[i], other_exprs[i])

format_subqueries(sel, ctx) == NoneValue

\* The first error of a sequence of results, if any.
RECURSIVE FirstError(_)
FirstError(rs) ==
    IF Len(rs) = 0 THEN [ok |-> TRUE]
    ELSE IF ~Head(rs).ok THEN Head(rs)
    ELSE FirstError(Tail(rs))

Strings(rs) == [i \in 1..Len(rs) |-> rs[i].s]

\* The loop of format_select_set: an entry that holds a line break goes on
\* lines of its own, behind the indent of the Select; the others are packed on
\* lines of at most max_length characters.
max_length == 70

RECURSIVE PackLines(_, _, _, _, _)
PackLines(formatted, i, buf, line_length, spaces) ==
    IF i > Len(formatted) THEN buf
    ELSE LET val == formatted[i]
         IN  IF count(val, "\n") /= 0
             THEN PackLines(formatted, i + 1,
                            buf \o (IF i > 1 THEN "," ELSE "") \o "\n"
                                \o indent(val, spaces) \o "\n",
                            0, spaces)
             ELSE IF line_length /= 0 /\ Len(val) + line_length > max_length
             THEN PackLines(formatted, i + 1,
                            buf \o (IF i > 1 THEN ",\n" ELSE "\n") \o val, Len(val),
                            spaces)
             ELSE PackLines(formatted, i + 1,
                            buf \o (IF i > 1 THEN ", " ELSE "") \o val,
                            line_length + Len(val) + 2, spaces)

\* One entry of the select list.
FormatSelectEntry(e, ctx) ==
    IF IsValueExpr(e) THEN translate_expr(e, ctx, TRUE)
    ELSE IF need_aliases(ctx)
    THEN LET s == Str(get_alias(ctx, e)) \o ".*" IN Frag(s, <<s>>)
    ELSE Frag("*", <<"*">>)

\* The rest of format_select_set once the entries are formatted.
SelectClause(formatted, spaces) ==
    IF ~FirstError(formatted).ok THEN FirstError(formatted)
    ELSE [ok |-> TRUE,
          s |-> "SELECT " \o PackLines(Strings(formatted), 1, "", 0, spaces),
          formatted |-> Strings(formatted)]

format_select_set(sel, ctx) ==
    SelectClause([i \in 1..Len(sel.select_set) |->
                     FormatSelectEntry(sel.select_set[i], ctx)],
                 sel.indent)

_format_table(ctx, e) ==
    IF "name" \notin DOMAIN e THEN Raise("AttributeError")
    ELSE IF e.name = NoneValue THEN Raise("RelationError")
    ELSE IF need_aliases(ctx)
    THEN LET s == e.name.v \o " " \o Str(get_alias(ctx, e)) IN Frag(s, <<s>>)
    ELSE Frag(e.name.v, <<e.name.v>>)

\* A clause a formatter returned: None, or its text.
NoClause == [ok |-> TRUE, isNone |-> TRUE]
Clause(s) == [ok |-> TRUE, isNone |-> FALSE, s |-> s]

-----------------------------------------------------------------------------
(* _JoinFormatter *)

_join_names ==
    [InnerJoin |-> "INNER JOIN",
     LeftJoin |-> "LEFT OUTER JOIN",
     RightJoin |-> "RIGHT OUTER JOIN",
     OuterJoin |-> "FULL OUTER JOIN",
     LeftAntiJoin |-> "LEFT ANTI JOIN",
     LeftSemiJoin |-> "LEFT SEMI JOIN",
     CrossJoin |-> "CROSS JOIN"]

\* _JoinFormatter.__init__: the three lists, empty
NewJoinFormatter ==
    [ok |-> TRUE, join_tables |-> <<>>, join_types |-> <<>>, join_predicates |-> <<>>]

\* The formatter after one more table, or after a table and the join that
\* brings it, has been pushed; a table that cannot be formatted raises.
PushTable(f, ctx, e) ==
    IF ~f.ok THEN f
    ELSE LET t == _format_table(ctx, e)
         IN  IF ~t.ok THEN t
             ELSE [f EXCEPT !.join_tables = Append(@, t.s)]

\* PushJoin putting the join in front of the ones already read
PushJoin_in_front(f, jname, predicates) ==
    IF ~f.ok THEN f
    ELSE [f EXCEPT !.join_types = <<jname>> \o @,
                   !.join_predicates = <<predicates>> \o @]

PushJoin(f, jname, predicates) ==
    IF ~f.ok THEN f
    ELSE [f EXCEPT !.join_types = Append(@, jname),
                   !.join_predicates = Append(@, predicates)]

RECURSIVE _walk_join_tree(_, _, _)

\* _walk_join_tree without the elif that refuses a join on the right side
_walk_join_tree_right_unchecked(f, ctx, op) ==
    IF IsJoin(op.left) /\ IsJoin(op.right) THEN Raise("NotImplementedError")
    ELSE IF op.kind \notin DOMAIN _join_names THEN Raise("KeyError")
    ELSE IF IsJoin(op.left)
    THEN PushJoin(PushTable(_walk_join_tree(f, ctx, op.left), ctx, op.right),
                  _join_names[op.kind], op.predicates)
    ELSE PushJoin(PushTable(PushTable(f, ctx, op.left), ctx, op.right),
                  _join_names[op.kind], op.predicates)

_walk_join_tree(f, ctx, op) ==
    LET left == op.left
        right == op.right
    IN  IF IsJoin(left) /\ IsJoin(right) THEN Raise("NotImplementedError")
        ELSE IF op.kind \notin DOMAIN _join_names THEN Raise("KeyError")
        ELSE LET jname == _join_names[op.kind]
             IN  IF IsJoin(left)
                 THEN PushJoin(PushTable(_walk_join_tree(f, ctx, left), ctx, op.right),
                               jname, op.predicates)
                 ELSE IF IsJoin(right) THEN Raise("NotImplementedError")
                 ELSE PushJoin(PushTable(PushTable(f, ctx, op.left), ctx, op.right),
                               jname, op.predicates)

\* translate_expr over a list of expressions, in order
TranslateAll(exprs, ctx) ==
    [i \in 1..Len(exprs) |-> translate_expr(exprs[i], ctx, FALSE)]

\* The lines one (jtype, table, preds) of the zip adds to the buffer, fmt_preds
\* being the translated preds.
JoinLines(jtype, table, preds, fmt_preds) ==
    LET head == "\n" \o indent(jtype \o " " \o table, 2)
    IN  IF Len(preds) = 0 THEN Clause(head)
        ELSE IF ~FirstError(fmt_preds).ok THEN FirstError(fmt_preds)
        ELSE Clause(head \o "\n"
                    \o indent("ON " \o Concat(Strings(fmt_preds), " AND\n" \o Blank(3)),
                              2 * 2))

Min(a, b) == IF a < b THEN a ELSE b

\* The buffer of get_result joined: the first table and the lines of the zip.
JoinBuffer(f, lines) ==
    IF ~FirstError(lines).ok THEN FirstError(lines)
    ELSE [ok |-> TRUE,
          s |-> f.join_tables[1] \o Concat(Strings(lines), ""),
          join_tables |-> f.join_tables,
          join_types |-> f.join_types,
          join_predicates |-> f.join_predicates]

\* get_result after the walk: f is the formatter the walk left, or the
\* exception it raised.
FormatWalked(ctx, f) ==
    IF ~f.ok THEN f
    ELSE JoinBuffer(f,
             [i \in 1..Min(Len(f.join_types),
                           Min(Len(f.join_tables) - 1, Len(f.join_predicates))) |->
                 JoinLines(f.join_types[i], f.join_tables[i + 1], f.join_predicates[i],
                           TranslateAll(f.join_predicates[i], ctx))])

\* _JoinFormatter(ctx, expr).get_result()
JoinFormatter_get_result(ctx, e) ==
    FormatWalked(ctx, _walk_join_tree(NewJoinFormatter, ctx, e))

-----------------------------------------------------------------------------
(* Select: the clause formatters and compile *)

\* The FROM clause of a formatted table set, or the exception raised.
FromClause(r) == IF r.ok THEN Clause("FROM " \o r.s) ELSE r

format_table_set(sel, ctx) ==
    LET op == sel.table_set
    IN  IF IsJoin(op)
        THEN FromClause(JoinFormatter_get_result(ctx, op))
        ELSE FromClause(_format_table(ctx, op))

\* The index of the first group_by entry the check of format_group_by stops
\* at, 0 when every entry passes.
RECURSIVE FirstGroupByFailure(_, _)
FirstGroupByFailure(sel, i) ==
    IF i > Len(sel.group_by) THEN 0
    ELSE IF i > Len(sel.select_set) THEN i
    ELSE IF sel.group_by[i] /= sel.select_set[i] THEN i
    ELSE FirstGroupByFailure(sel, i + 1)

format_group_by(sel, ctx) ==
    IF Len(sel.group_by) = 0 THEN NoClause
    ELSE LET i == FirstGroupByFailure(sel, 1)
         IN  IF i /= 0 /\ i > Len(sel.select_set) THEN Raise("IndexError")
             ELSE IF i /= 0 THEN Raise("InternalError")
             ELSE Clause("GROUP BY "
                         \o Concat([x \in 1..Len(sel.group_by) |-> ToString(x)], ", "))

\* The WHERE clause of the translated predicates.
WhereClause(fmt_preds) ==
    IF ~FirstError(fmt_preds).ok THEN FirstError(fmt_preds)
    ELSE Clause("WHERE " \o Concat(Strings(fmt_preds), " AND\n" \o Blank(6)))

format_where(sel, ctx) ==
    IF Len(sel.where) = 0 THEN NoClause
    ELSE WhereClause(TranslateAll(sel.where, ctx))

\* One sort key of the ORDER BY clause, translated being its translated
\* expression.
SortKeyText(key, translated) ==
    IF ~translated.ok THEN translated
    ELSE IF ~key.ascending THEN Frag(translated.s \o " DESC", translated.t \o <<"DESC">>)
    ELSE translated

\* The ORDER BY and LIMIT lines, formatted being the formatted sort keys.
Postamble(sel, formatted) ==
    LET order == IF Len(sel.order_by) > 0
                 THEN "ORDER BY " \o Concat(Strings(formatted), ", ")
                 ELSE ""
        lim == IF sel.limit.isNone THEN ""
               ELSE (IF Len(sel.order_by) > 0 THEN "\n" ELSE "")
                    \o "LIMIT " \o ToString(sel.limit.v.n)
                    \o (IF sel.limit.v.offset.isNone THEN ""
                        ELSE " OFFSET " \o ToString(sel.limit.v.offset.v))
    IN  IF Len(sel.order_by) > 0 /\ ~FirstError(formatted).ok THEN FirstError(formatted)
        ELSE IF Len(sel.order_by) = 0 /\ sel.limit.isNone THEN NoClause
        ELSE Clause(order \o lim)

format_postamble(sel, ctx) ==
    Postamble(sel, [i \in 1..Len(sel.order_by) |->
                       SortKeyText(sel.order_by[i],
                                   translate_expr(sel.order_by[i].expr, ctx, FALSE))])

\* _join_not_none with the GROUP BY fragment ahead of the WHERE fragment
_join_not_none_group_first(sep, pieces) ==
    LET kept == SelectSeq(<<pieces[1], pieces[2], pieces[3], pieces[5], pieces[4], pieces[6]>>,
                          LAMBDA x : ~x.isNone)
    IN  Concat([i \in 1..Len(kept) |-> kept[i].s], sep)

\* _join_not_none
_join_not_none(sep, pieces) ==
    LET kept == SelectSeq(pieces, LAMBDA x : ~x.isNone)
    IN  Concat([i \in 1..Len(kept) |-> kept[i].s], sep)

\* The query joined from the fragments of the formatters, or the first
\* exception among them in the order compile calls them.
JoinFragments(with_frag, select_frag, from_frag, where_frag, groupby_frag, order_frag) ==
    IF ~FirstError(<<select_frag, from_frag, where_frag, groupby_frag, order_frag>>).ok
    THEN FirstError(<<select_frag, from_frag, where_frag, groupby_frag, order_frag>>)
    ELSE [ok |-> TRUE,
          s |-> _join_not_none("\n",
                    <<with_frag, Clause(select_frag.s), from_frag, where_frag,
                      groupby_frag, order_frag>>),
          formatted |-> select_frag.formatted,
          clauses |-> <<with_frag, Clause(select_frag.s), from_frag, where_frag,
                        groupby_frag, order_frag>>]

\* The value of Select.compile(context) once populate_context has run.
Render(sel, ctx) ==
    JoinFragments(format_subqueries(sel, ctx), format_select_set(sel, ctx),
                  format_table_set(sel, ctx), format_where(sel, ctx),
                  format_group_by(sel, ctx), format_postamble(sel, ctx))

-----------------------------------------------------------------------------
(* QueryASTBuilder *)

\* The loop that sheds the Filter / Limit / SortBy nodes on top of the root.
RECURSIVE ShedModifiers(_)
ShedModifiers(base_expr) ==
    IF base_expr.kind \in {"Filter", "Limit", "SortBy"}
    THEN ShedModifiers(base_expr.table)
    ELSE base_expr

\* node.args: the arguments of an operation node that are expressions, in
\* order (the name of a column and the value of a literal are not)
ArgExprs(node) ==
    IF node.kind = "TableColumn" THEN <<node.table>>
    ELSE IF "value_expr" \in DOMAIN node THEN <<node.value_expr>>
    ELSE IF "left" \in DOMAIN node THEN <<node.left, node.right>>
    ELSE IF "arg" \in DOMAIN node THEN <<node.arg>>
    ELSE <<>>

\* collect(node): the first table expression under each argument, in order
RECURSIVE FirstTables(_), PushFirst(_)
PushFirst(args) ==
    IF Len(args) = 0 THEN <<>>
    ELSE (IF IsTableExpr(Head(args)) THEN <<Head(args)>> ELSE FirstTables(Head(args)))
         \o PushFirst(Tail(args))

FirstTables(node) == PushFirst(ArgExprs(node))

\* util.unique_by_key(xs, id): the first of every object, in order
RECURSIVE unique_by_key(_)
unique_by_key(xs) ==
    IF Len(xs) = 0 THEN <<>>
    ELSE LET init == unique_by_key(SubSeq(xs, 1, Len(xs) - 1))
             last == xs[Len(xs)]
         IN  IF \E i \in 1..Len(init) : init[i] = last THEN init ELSE Append(init, last)

\* A table expression is its own source; for a value expression the code
\* returns the list of the tables it reads.
_get_source_table_expr(e) ==
    IF IsTableExpr(e) THEN e ELSE unique_by_key(FirstTables(e))

\* QueryASTBuilder._build_select, of a builder over the expression e whose
\* base_expr is b
_build_select(e, b) ==
    LET source_table == _get_source_table_expr(e)
        modifiers == collect_modifiers(source_table)
        shed == ShedModifiers(b)
        node1 == IF IsJoin(shed) /\ shed.kind /= "MaterializedJoin"
                 THEN materialize(b)
                 ELSE shed
        base_expr == IF node1.kind = "SelfReference" THEN node1.table ELSE shed
        base_node == IF node1.kind = "SelfReference" THEN node1.table ELSE node1
        build(table_set, select_set, group_by, having) ==
            Returned(Select(table_set, select_set, Some(modifiers.filters), group_by,
                            Some(modifiers.sort_by), modifiers.limit, having, NoneValue, e))
    IN  IF base_node.kind = "Projection"
        THEN build(base_node.table, base_node.selections, NoneValue, NoneValue)
        ELSE IF base_node.kind = "Aggregation"
        THEN build(base_node.table, base_node.by \o base_node.agg_exprs,
                   Some(base_node.by), Some(base_node.having))
        ELSE IF base_node.kind = "MaterializedJoin"
        THEN build(base_expr, <<base_node.left, base_node.left>>, NoneValue, NoneValue)
        ELSE IF base_node.kind = "PhysicalTable"
        THEN build(base_expr, <<base_expr>>, NoneValue, NoneValue)
        ELSE Raise("NotImplementedError")

_generate_setup_queries == <<>>
_generate_teardown_queries == <<>>

\* QueryAST.__init__
QueryAST(context, qs) == [context |-> context, queries |-> qs]

-----------------------------------------------------------------------------
(* Scalar expressions handed to the translator *)

\* The size (number of nodes) of the scalar expressions tried.
MaxNodes == 5

TableT == [kind |-> "PhysicalTable", id |-> 1, name |-> Some("t")]
TableU == [kind |-> "PhysicalTable", id |-> 2, name |-> Some("u")]

Column(table, name, type) ==
    [kind |-> "TableColumn", type |-> type, name |-> name, table |-> table,
     ename |-> name]

NumLeaves ==
    {Column(TableT, "a", "int64"), [kind |-> "Literal", type |-> "int8", value |-> 1]}

BoolLeaves ==
    {Column(TableT, "b", "boolean"), Column(TableU, "c", "boolean")}

\* The operator kinds tried, one or two of each precedence class.
ArithKinds == {"Add", "Multiply"}
CompareKinds == {"Equals"}
LogicalKinds == {"And", "Or", "Xor"}
FunctionKinds == {"Sum"}
NullKinds == {"IsNull", "NotNull"}

UnaryNode(k, type, arg) == [kind |-> k, type |-> type, arg |-> arg]
BinaryNode(k, type, l, r) == [kind |-> k, type |-> type, left |-> l, right |-> r]

\* The well-typed value expressions of exactly n nodes: NumExprs are numeric,
\* BoolExprs boolean.  Negate has the type of its operand.
RECURSIVE NumExprs(_), BoolExprs(_)
NumExprs(n) ==
    IF n = 1 THEN NumLeaves
    ELSE {UnaryNode(k, "double", x) : k \in FunctionKinds, x \in NumExprs(n - 1)}
         \cup {UnaryNode("Negate", x.type, x) : x \in NumExprs(n - 1)}
         \cup UNION {{BinaryNode(k, l.type, l, r) :
                         k \in ArithKinds, l \in NumExprs(i), r \in NumExprs(n - 1 - i)} :
                     i \in 1..(n - 2)}

BoolExprs(n) ==
    IF n = 1 THEN BoolLeaves
    ELSE {UnaryNode(k, "boolean", x) :
              k \in NullKinds, x \in NumExprs(n - 1) \cup BoolExprs(n - 1)}
         \cup {UnaryNode("Negate", "boolean", x) : x \in BoolExprs(n - 1)}
         \cup UNION {{BinaryNode(k, "boolean", l, r) :
                         k \in LogicalKinds, l \in BoolExprs(i), r \in BoolExprs(n - 1 - i)} :
                     i \in 1..(n - 2)}
         \cup UNION {{BinaryNode(k, "boolean", l, r) :
                         k \in CompareKinds, l \in NumExprs(i), r \in NumExprs(n - 1 - i)} :
                     i \in 1..(n - 2)}

ScalarExprs == UNION {NumExprs(n) \cup BoolExprs(n) : n \in 1..MaxNodes}

EmptyContext == [k \in {} |-> "t0"]

\* The contexts a translator is given: a fresh one, one of two aliases made by
\* make_alias, and one of two aliases bound by set_alias, the text None among
\* them.
TranslateContexts ==
    {EmptyContext,
     make_alias(make_alias(EmptyContext, TableT), TableU),
     set_alias(set_alias(EmptyContext, TableT, "None"), TableU, "x")}

-----------------------------------------------------------------------------
(* Table expressions handed to the builder *)

\* The number of Filter / Limit / SortBy nodes stacked on a root.
MaxModifiers == 1
\* The number of calls made on one builder and its context.
MaxCalls == 3

TableA == [kind |-> "PhysicalTable", id |-> 1, name |-> Some("a")]
TableB == [kind |-> "PhysicalTable", id |-> 2, name |-> Some("b")]
TableC == [kind |-> "PhysicalTable", id |-> 3, name |-> Some("c")]
Relations == {TableA, TableB, TableC}

KeyOf(table) == Column(table, "k", "int64")
JoinOn(k, l, r, predicates) ==
    [kind |-> k, left |-> l, right |-> r, predicates |-> predicates]
InnerJoin(l, r, lt, rt) ==
    JoinOn("InnerJoin", l, r, <<BinaryNode("Equals", "boolean", KeyOf(lt), KeyOf(rt))>>)
CrossJoin(l, r) == JoinOn("CrossJoin", l, r, <<>>)

\* Joins of two tables (a table may be joined with itself), of three in a
\* left-leaning chain, of three leaning right, and a join of two joins.
TwoTableJoins ==
    {InnerJoin(l, r, l, r) : l \in {TableA}, r \in {TableA, TableB}}
        \cup {CrossJoin(TableA, TableB)}
ThreeTableChains ==
    {InnerJoin(j, TableC, TableA, TableC) : j \in TwoTableJoins}
RightLeaningJoins == {InnerJoin(TableC, j, TableC, TableA) : j \in {CrossJoin(TableA, TableB)}}
JoinsOfJoins ==
    {CrossJoin(InnerJoin(TableA, TableB, TableA, TableB), CrossJoin(TableA, TableC))}
JoinInputs == TwoTableJoins \cup ThreeTableChains \cup RightLeaningJoins \cup JoinsOfJoins

SumOf(col, name) == [kind |-> "Sum", type |-> "int64", arg |-> col, ename |-> name]
ColA == Column(TableA, "a", "int64")
ColB == Column(TableA, "b", "int64")
PredA == BinaryNode("Greater", "boolean", ColA, [kind |-> "Literal", type |-> "int8", value |-> 5])

ProjectionInputs ==
    {[kind |-> "Projection", table |-> t, selections |-> sel] :
        t \in {TableA, InnerJoin(TableA, TableB, TableA, TableB)},
        sel \in {<<ColA>>, <<TableA, KeyOf(TableB)>>}}

AggregationInputs ==
    {[kind |-> "Aggregation", table |-> TableA, by |-> by,
      agg_exprs |-> <<SumOf(ColB, "total")>>, having |-> having] :
        by \in {<<>>, <<ColA>>},
        having \in {<<>>, <<BinaryNode("Greater", "boolean", SumOf(ColB, "total"),
                                       [kind |-> "Literal", type |-> "int8", value |-> 5])>>}}

RootInputs ==
    {TableA, [kind |-> "SelfReference", table |-> TableA]}
        \cup JoinInputs \cup ProjectionInputs \cup AggregationInputs

Modifiers(t) ==
    {[kind |-> "Filter", table |-> t, predicates |-> <<PredA>>],
     [kind |-> "Limit", table |-> t, n |-> 10, offset |-> NoneValue],
     [kind |-> "SortBy", table |-> t, keys |-> <<[expr |-> ColA, ascending |-> FALSE]>>]}

RECURSIVE Modified(_)
Modified(n) ==
    IF n = 0 THEN RootInputs
    ELSE Modified(n - 1) \cup UNION {Modifiers(t) : t \in Modified(n - 1)}

BuilderInputs == Modified(MaxModifiers)

NotRun == [call |-> "none", ok |-> FALSE, err |-> "not run"]
NoSelect == [kind |-> "NoSelect"]

-----------------------------------------------------------------------------
(* SpecTranslate: ExprTranslator(expr, context).translate(expr) *)

InitTranslate ==
    /\ expr \in ScalarExprs
    /\ table_aliases \in TranslateContexts
    /\ queries = <<>>
    /\ select = NoSelect
    /\ result = NotRun
    /\ calls = 0

Translate ==
    /\ calls = 0
    /\ result' = Outcome("translate", translate(table_aliases, expr))
    /\ calls' = 1
    /\ UNCHANGED <<expr, table_aliases, queries, select>>

NextTranslate == Translate

SpecTranslate == InitTranslate /\ [][NextTranslate]_vars

-----------------------------------------------------------------------------
(* Standard SQL operator precedence: the reference reading of a fragment.   *)
(* Loosest to tightest: OR, AND, NOT, comparison and IS [NOT] NULL,          *)
(* + and -, * and /, ^, unary minus, primary.  Binary operators associate   *)
(* to the left.                                                             *)

\* The levels are numbered 1 (OR), 2 (AND), 3 (NOT), 4 (comparison, IS), 5 (+ -),
\* 6 (* /), 7 (^), 8 (unary minus), 9 (primary); LevelSymbols gives the binary
\* operators of the levels 1 to 7.
LevelSymbols ==
    <<{"OR"}, {"AND"}, {}, {"=", "!=", ">=", ">", "<=", "<"}, {"+", "-"}, {"*", "/"}, {"^"}>>

SymbolKind ==
    [s \in {"OR", "AND", "=", "!=", ">=", ">", "<=", "<", "+", "-", "*", "/", "^"} |->
        CASE s = "OR" -> "Or" [] s = "AND" -> "And" [] s = "=" -> "Equals"
          [] s = "!=" -> "NotEquals" [] s = ">=" -> "GreaterEqual" [] s = ">" -> "Greater"
          [] s = "<=" -> "LessEqual" [] s = "<" -> "Less" [] s = "+" -> "Add"
          [] s = "-" -> "Subtract" [] s = "*" -> "Multiply" [] s = "/" -> "Divide"
          [] s = "^" -> "Power"]

FunctionNames == {"exp", "sqrt", "log", "log2", "log10", "avg", "sum"}
ReservedTokens ==
    DOMAIN SymbolKind \cup FunctionNames
        \cup {"(", ")", "NOT", "IS", "NULL", "AS", "CAST", "XOR", "<eof>"}

TokenAt(toks, i) == IF i <= Len(toks) THEN toks[i] ELSE "<eof>"

Parsed(tree, pos) == [ok |-> TRUE, tree |-> tree, pos |-> pos]
ParseFailure == [ok |-> FALSE]

TreeAtom(text) == [kind |-> "Atom", text |-> text]
TreeUnary(k, arg) == [kind |-> k, arg |-> arg]
TreeBinary(k, l, r) == [kind |-> k, left |-> l, right |-> r]
TreeCall(name, arg) == [kind |-> "Call", name |-> name, arg |-> arg]
TreeCast(arg, to) == [kind |-> "Cast", arg |-> arg, to |-> to]

RECURSIVE ParseLevel(_, _, _), ParseRest(_, _, _, _)

ParsePrimary(toks, i) ==
    LET tok == TokenAt(toks, i)
    IN  IF tok = "("
        THEN LET inner == ParseLevel(toks, i + 1, 1)
             IN  IF inner.ok /\ TokenAt(toks, inner.pos) = ")"
                 THEN Parsed(inner.tree, inner.pos + 1)
                 ELSE ParseFailure
        ELSE IF tok = "CAST"
        THEN LET inner == IF TokenAt(toks, i + 1) = "("
                          THEN ParseLevel(toks, i + 2, 1)
                          ELSE ParseFailure
             IN  IF /\ inner.ok
                    /\ TokenAt(toks, inner.pos) = "AS"
                    /\ TokenAt(toks, inner.pos + 2) = ")"
                 THEN Parsed(TreeCast(inner.tree, TokenAt(toks, inner.pos + 1)),
                             inner.pos + 3)
                 ELSE ParseFailure
        ELSE IF tok \in FunctionNames
        THEN LET inner == IF TokenAt(toks, i + 1) = "("
                          THEN ParseLevel(toks, i + 2, 1)
                          ELSE ParseFailure
             IN  IF inner.ok /\ TokenAt(toks, inner.pos) = ")"
                 THEN Parsed(TreeCall(tok, inner.tree), inner.pos + 1)
                 ELSE ParseFailure
        ELSE IF tok \in ReservedTokens THEN ParseFailure
        ELSE Parsed(TreeAtom(tok), i + 1)

ParseLevel(toks, i, lvl) ==
    IF lvl = 3
    THEN IF TokenAt(toks, i) = "NOT"
         THEN LET a == ParseLevel(toks, i + 1, 3)
              IN  IF a.ok THEN Parsed(TreeUnary("Not", a.tree), a.pos) ELSE a
         ELSE ParseLevel(toks, i, lvl + 1)
    ELSE IF lvl = 8
    THEN IF TokenAt(toks, i) = "-"
         THEN LET a == ParseLevel(toks, i + 1, 8)
              IN  IF a.ok THEN Parsed(TreeUnary("Minus", a.tree), a.pos) ELSE a
         ELSE ParseLevel(toks, i, lvl + 1)
    ELSE IF lvl = 9 THEN ParsePrimary(toks, i)
    ELSE LET l == ParseLevel(toks, i, lvl + 1)
         IN  IF l.ok THEN ParseRest(toks, l.tree, l.pos, lvl) ELSE l

ParseRest(toks, left, i, lvl) ==
    LET tok == TokenAt(toks, i)
    IN  IF tok \in LevelSymbols[lvl]
        THEN LET r == ParseLevel(toks, i + 1, lvl + 1)
             IN  IF r.ok
                 THEN ParseRest(toks, TreeBinary(SymbolKind[tok], left, r.tree), r.pos, lvl)
                 ELSE r
        ELSE IF lvl = 4 /\ tok = "IS"
        THEN IF TokenAt(toks, i + 1) = "NULL"
             THEN ParseRest(toks, TreeUnary("IsNull", left), i + 2, lvl)
             ELSE IF TokenAt(toks, i + 1) = "NOT" /\ TokenAt(toks, i + 2) = "NULL"
             THEN ParseRest(toks, TreeUnary("NotNull", left), i + 3, lvl)
             ELSE ParseFailure
        ELSE Parsed(left, i)

\* The whole token sequence read as one expression.
ParseSQL(toks) ==
    LET p == ParseLevel(toks, 1, 1)
    IN  IF p.ok /\ p.pos = Len(toks) + 1 THEN p ELSE ParseFailure

\* The operator tree an expression denotes: a leaf is its text, Xor(a, b) is
\* (a OR b) AND NOT (a AND b), a boolean Negate is NOT and a numeric one minus.
RECURSIVE OperatorTree(_, _)
OperatorTree(ctx, e) ==
    IF e.kind \in {"Literal", "TableColumn"} THEN TreeAtom(translate(ctx, e).s)
    ELSE IF e.kind = "Xor"
    THEN LET a == OperatorTree(ctx, e.left)
             b == OperatorTree(ctx, e.right)
         IN  TreeBinary("And", TreeBinary("Or", a, b),
                        TreeUnary("Not", TreeBinary("And", a, b)))
    ELSE IF e.kind = "Negate"
    THEN TreeUnary(IF e.type = "boolean" THEN "Not" ELSE "Minus", OperatorTree(ctx, e.arg))
    ELSE IF e.kind \in {"IsNull", "NotNull"}
    THEN TreeUnary(e.kind, OperatorTree(ctx, e.arg))
    ELSE IF e.kind = "Cast"
    THEN TreeCast(OperatorTree(ctx, e.value_expr), _sql_type_names[e.target_type])
    ELSE IF e.kind \in DOMAIN _unary_ops
    THEN TreeCall(_unary_ops[e.kind].a, OperatorTree(ctx, e.arg))
    ELSE TreeBinary(e.kind, OperatorTree(ctx, e.left), OperatorTree(ctx, e.right))

-----------------------------------------------------------------------------
(* Claims about the translator *)

Translated == calls = 1 /\ result.ok

\* C4: parenthesization soundness.  The fragment translate emits for a scalar
\* expression, read under standard SQL precedence, is the operator tree of
\* the expression.
C4_ParenthesizationSound ==
    Translated =>
        LET p == ParseSQL(result.t)
        IN  p.ok /\ p.tree = OperatorTree(table_aliases, expr)

\* The same, for the expressions without a boolean Negate or an IsNull /
\* NotNull over an operator: what is left of C4 when those are set aside.
RECURSIVE HasBareUnary(_)
HasBareUnary(e) ==
    IF e.kind \in {"Literal", "TableColumn"} THEN FALSE
    ELSE IF e.kind \in {"IsNull", "NotNull"} \/ (e.kind = "Negate" /\ e.type = "boolean")
    THEN e.arg.kind \notin {"Literal", "TableColumn"} \/ HasBareUnary(e.arg)
    ELSE IF "arg" \in DOMAIN e THEN HasBareUnary(e.arg)
    ELSE HasBareUnary(e.left) \/ HasBareUnary(e.right)

InfixSoundWithoutBareUnary ==
    (Translated /\ ~HasBareUnary(expr)) =>
        LET p == ParseSQL(result.t)
        IN  p.ok /\ p.tree = OperatorTree(table_aliases, expr)

\* C5: a boolean Negate over a binary-infix operation parenthesizes its
\* operand: the fragment is NOT followed by the operand in parentheses.
C5_BooleanNegateParenthesizes ==
    (/\ calls = 1
     /\ expr.kind = "Negate"
     /\ IsBooleanValue(expr)
     /\ expr.arg.kind \in DOMAIN _binary_infix_ops)
        => /\ result.ok
           /\ result.s = "NOT (" \o translate(table_aliases, expr.arg).s \o ")"

\* The operator kinds whose rendering is `L op R`, and the needs-parens set.
InfixKinds ==
    {"Add", "Subtract", "Multiply", "Divide", "Power", "And", "Or", "Xor", "Equals",
     "NotEquals", "GreaterEqual", "Greater", "LessEqual", "Less"}
NeedsParensKinds == InfixKinds \cup {"Negate"}

\* The rendering of an operand: in parentheses exactly when its kind is in the
\* needs-parens set.
OperandText(ctx, e) ==
    IF e.kind \in NeedsParensKinds
    THEN "(" \o translate(ctx, e).s \o ")"
    ELSE translate(ctx, e).s

\* C6: the XOR rewrite.  Xor(a, b) is rendered (A OR B) AND NOT (A AND B), A and
\* B the renderings of a and b, each in parentheses exactly when it is in the
\* needs-parens set; no XOR token is emitted; and a Xor under a binary-infix
\* operator is in parentheses like any other binary-infix child.
C6_XorRewrite ==
    calls = 1 =>
        /\ expr.kind = "Xor" =>
              LET A == OperandText(table_aliases, expr.left)
                  B == OperandText(table_aliases, expr.right)
              IN  /\ result.ok
                  /\ result.s = "(" \o A \o " OR " \o B \o ") AND NOT ("
                                    \o A \o " AND " \o B \o ")"
        /\ result.ok => \A i \in 1..Len(result.t) : result.t[i] /= "XOR"
        /\ (/\ expr.kind \in InfixKinds \ {"Xor"}
            /\ "Xor" \in {expr.left.kind, expr.right.kind}) =>
              /\ result.ok
              /\ result.s = OperandText(table_aliases, expr.left) \o " "
                                \o _binary_infix_ops[expr.kind].a \o " "
                                \o OperandText(table_aliases, expr.right)

\* A Xor whose left operand is itself an infix operation and whose right
\* operand is not in the needs-parens set has been translated.
C6_Witness ==
    /\ Translated
    /\ expr.kind = "Xor"
    /\ expr.left.kind \in InfixKinds
    /\ expr.right.kind \notin NeedsParensKinds

\* The rendering of an operand with parentheses exactly when it is a
\* binary-infix operation or a numeric Negate.
OperandTextNumericNegate(ctx, e) ==
    IF e.kind \in InfixKinds \/ (e.kind = "Negate" /\ IsNumericValue(e))
    THEN "(" \o translate(ctx, e).s \o ")"
    ELSE translate(ctx, e).s

\* C12 as stated: in the rendering L op R of a binary-infix operator an operand
\* is in parentheses if and only if it is itself a binary-infix operator or a
\* numeric Negate; a boolean Negate is emitted without parentheses.
C12_ParensIffInfixOrNumericNegate ==
    (calls = 1 /\ expr.kind \in InfixKinds \ {"Xor"}) =>
        /\ result.ok
        /\ result.s = OperandTextNumericNegate(table_aliases, expr.left) \o " "
                          \o _binary_infix_ops[expr.kind].a \o " "
                          \o OperandTextNumericNegate(table_aliases, expr.right)

\* C12 as amended: in the rendering L op R of a binary-infix operator an
\* operand is in parentheses if and only if it is itself a binary-infix
\* operator (Xor included) or a Negate, numeric or boolean; a column, a
\* literal, a function call and IsNull / NotNull are emitted without
\* parentheses.
C12_ParensIffInfixOrNegate ==
    (calls = 1 /\ expr.kind \in InfixKinds \ {"Xor"}) =>
        /\ result.ok
        /\ result.s = OperandText(table_aliases, expr.left) \o " "
                          \o _binary_infix_ops[expr.kind].a \o " "
                          \o OperandText(table_aliases, expr.right)

\* An infix operation with a boolean Negate on one side and an operand that
\* takes no parentheses on the other has been translated.
C12_Witness ==
    /\ Translated
    /\ expr.kind \in InfixKinds \ {"Xor"}
    /\ expr.left.kind = "Negate"
    /\ IsBooleanValue(expr.left)
    /\ expr.right.kind \in {"TableColumn", "IsNull", "NotNull"}

-----------------------------------------------------------------------------
(* Spec: one QueryASTBuilder, its context and the Select it builds *)

\* QueryASTBuilder(expr): a fresh context, no queries.  The builder's base_expr
\* is the expression itself.
Init ==
    /\ expr \in BuilderInputs
    /\ table_aliases = EmptyContext
    /\ queries = <<>>
    /\ select = NoSelect
    /\ result = NotRun
    /\ calls = 0

\* get_result without the guard that makes it idempotent
get_result_without_guard ==
    /\ calls < MaxCalls
    /\ calls' = calls + 1
    /\ LET primary == _build_select(expr, expr)
       IN  IF ~primary.ok
           THEN /\ queries' = queries \o _generate_setup_queries
                /\ result' = Outcome("get_result", primary)
           ELSE /\ queries' = queries \o _generate_setup_queries \o <<primary.v>>
                                  \o _generate_teardown_queries
                /\ result' = Outcome("get_result",
                                     Returned(QueryAST(table_aliases, queries')))
    /\ UNCHANGED <<expr, table_aliases, select>>

\* builder.get_result()
get_result ==
    /\ calls < MaxCalls
    /\ calls' = calls + 1
    /\ IF Len(queries) > 0
       THEN /\ result' = Outcome("get_result", Returned(QueryAST(table_aliases, queries)))
            /\ UNCHANGED queries
       ELSE LET setup_queries == _generate_setup_queries
                teardown_queries == _generate_teardown_queries
                primary == _build_select(expr, expr)
            IN  IF ~primary.ok
                THEN /\ queries' = queries \o setup_queries
                     /\ result' = Outcome("get_result", primary)
                ELSE /\ queries' = queries \o setup_queries \o <<primary.v>> \o teardown_queries
                     /\ result' = Outcome("get_result",
                                          Returned(QueryAST(table_aliases, queries')))
    /\ UNCHANGED <<expr, table_aliases, select>>

\* ast.queries[0].compile(ast.context)
compile ==
    /\ calls < MaxCalls
    /\ Len(queries) > 0
    /\ calls' = calls + 1
    /\ table_aliases' = populate_context(queries[1], table_aliases)
    /\ result' = Outcome("compile", Render(queries[1], table_aliases'))
    /\ UNCHANGED <<expr, queries, select>>

\* ast.queries[0].populate_context(ast.context)
populate ==
    /\ calls < MaxCalls
    /\ Len(queries) > 0
    /\ calls' = calls + 1
    /\ table_aliases' = populate_context(queries[1], table_aliases)
    /\ result' = Outcome("populate_context", Returned(NoneValue))
    /\ UNCHANGED <<expr, queries, select>>

\* context.make_alias(table) on the builder's context
MakeAlias(table) ==
    /\ calls < MaxCalls
    /\ calls' = calls + 1
    /\ table_aliases' = make_alias(table_aliases, table)
    /\ result' = Outcome("make_alias", Returned(NoneValue))
    /\ UNCHANGED <<expr, queries, select>>

\* The alias texts a caller binds with set_alias.
AliasTexts == {"x", "None"}

\* context.set_alias(table, alias) on the builder's context
SetAlias(table, alias) ==
    /\ calls < MaxCalls
    /\ calls' = calls + 1
    /\ table_aliases' = set_alias(table_aliases, table, alias)
    /\ result' = Outcome("set_alias", Returned(NoneValue))
    /\ UNCHANGED <<expr, queries, select>>

Next ==
    \/ get_result
    \/ compile
    \/ populate
    \/ \E table \in Relations : MakeAlias(table)
    \/ \E table \in Relations, alias \in AliasTexts : SetAlias(table, alias)

Spec == Init /\ [][Next]_vars

-----------------------------------------------------------------------------
(* Claims about the context, the builder and the Select it builds *)

Range(f) == {f[x] : x \in DOMAIN f}

\* The first call on the context was populate_context, alone or in compile:
\* get_result came before it and nothing else.
PopulatedFreshContext ==
    /\ calls = 2
    /\ result.call \in {"compile", "populate_context"}

\* C1: alias stability.  After populate_context has run on a fresh context for
\* a Select whose table_set has K distinct root relations, the context binds
\* exactly the aliases t0 .. t(K-1), one to each distinct relation.
C1_AliasStability ==
    PopulatedFreshContext =>
        LET roots == Range(RootTables(queries[1].table_set))
            K == Cardinality(roots)
        IN  /\ DOMAIN table_aliases = roots
            /\ Range(table_aliases) = {"t" \o ToString(i) : i \in 0..(K - 1)}
            /\ \A r1, r2 \in roots : r1 /= r2 => table_aliases[r1] /= table_aliases[r2]

\* Every alias of the context is one make_alias makes: no alias bound by
\* set_alias is in it.
MadeByMakeAlias(ctx) == Range(ctx) \cap AliasTexts = {}

\* C2: in every state of a context reached by make_alias, populate_context
\* and compile, no two relations share an alias, and none of these calls
\* changes the alias of a relation that has one.
C2_AliasesUniqueAndStable ==
    [][(MadeByMakeAlias(table_aliases) /\ result'.call /= "set_alias") =>
          /\ \A r \in DOMAIN table_aliases :
                r \in DOMAIN table_aliases' /\ table_aliases'[r] = table_aliases[r]
          /\ \A r1, r2 \in DOMAIN table_aliases' :
                r1 /= r2 => table_aliases'[r1] /= table_aliases'[r2]]_vars

\* The fields of a Select.
SelectFields ==
    {"select_set", "table_set", "where", "group_by", "having", "order_by", "limit",
     "parent_expr", "subqueries", "indent"}

\* C3: get_result is idempotent.  A get_result on a builder that holds queries
\* leaves them as they are; every QueryAST returned carries the builder's
\* context and its queries, which are the primary Select alone.
C3_GetResultIdempotent ==
    /\ [][Len(queries) > 0 => queries' = queries]_vars
    /\ []((result.call = "get_result" /\ result.ok) =>
            /\ result.v.queries = queries
            /\ result.v.context = table_aliases
            /\ Len(queries) = 1
            /\ DOMAIN queries[1] = SelectFields
            /\ queries[1].parent_expr = expr)

\* get_result has returned twice on one builder, with no other call between.
C3_Witness ==
    /\ calls = 2
    /\ result.call = "get_result"
    /\ result.ok
    /\ table_aliases = EmptyContext

\* C9: a Select of the builder has having predicates only if it has group keys.
C9_HavingOnlyWithGroupBy ==
    \A i \in 1..Len(queries) :
        Len(queries[i].having) > 0 => Len(queries[i].group_by) > 0

\* The column references of a value expression.
RECURSIVE ColumnsOf(_)
ColumnsOf(e) ==
    IF e.kind = "TableColumn" THEN {e}
    ELSE IF "value_expr" \in DOMAIN e THEN ColumnsOf(e.value_expr)
    ELSE IF "arg" \in DOMAIN e THEN ColumnsOf(e.arg)
    ELSE IF "left" \in DOMAIN e THEN ColumnsOf(e.left) \cup ColumnsOf(e.right)
    ELSE {}

\* C10: when a compiled Select needs aliases, every table entry of its select
\* list, rendered alias.*, and the owner of every column of its select list
\* have an alias in the context; no entry is rendered from the absent alias.
C10_EmittedAliasesBound ==
    (result.call = "compile" /\ result.ok /\ need_aliases(table_aliases)) =>
        \A i \in 1..Len(queries[1].select_set) :
            LET e == queries[1].select_set[i]
            IN  IF IsTableExpr(e)
                THEN /\ has_alias(table_aliases, e)
                     /\ result.formatted[i] /= "None.*"
                ELSE \A c \in ColumnsOf(e) : has_alias(table_aliases, c.table)

\* C13: modifier shedding is transparent to shape classification.  For a stack
\* of Filter / Limit / SortBy nodes over a root X, get_result builds the Select
\* it builds for X alone (the same table_set, select_set, group_by and having),
\* or fails as it fails for X alone; and when X is a join that is not
\* materialized, the Select has the shape of the materialized join: the join
\* as table_set and its left side as the select_set entries.
C13_SheddingTransparent ==
    (calls >= 1 /\ result.call = "get_result") =>
        LET X == ShedModifiers(expr)
            alone == _build_select(X, X)
        IN  /\ result.ok <=> alone.ok
            /\ ~alone.ok => result.err = alone.err
            /\ alone.ok =>
                  /\ queries[1].table_set = alone.v.table_set
                  /\ queries[1].select_set = alone.v.select_set
                  /\ queries[1].group_by = alone.v.group_by
                  /\ queries[1].having = alone.v.having
            /\ IsJoin(X) =>
                  /\ result.ok
                  /\ queries[1].table_set = X
                  /\ queries[1].select_set = <<X.left, X.left>>

-----------------------------------------------------------------------------
(* SpecJoin: _JoinFormatter(context, expr).get_result() on a tree of joins *)

\* The number of tables under the root of a join tree.
MaxJoinTables == 4

Unnamed == [kind |-> "PhysicalTable", id |-> 4, name |-> NoneValue]
Parameter == [kind |-> "Parameter", type |-> "boolean"]

JoinLeaves == {TableA, Unnamed}

\* The joins tried at a node: an inner join on a key, a cross join, and a left
\* join on a Parameter.
JoinNodes(l, r) ==
    {JoinOn("InnerJoin", l, r,
            <<BinaryNode("Equals", "boolean", KeyOf(TableA), KeyOf(Unnamed))>>),
     JoinOn("CrossJoin", l, r, <<>>),
     JoinOn("LeftJoin", l, r, <<Parameter>>)}

\* The binary join trees over n tables, of every shape.
RECURSIVE JoinTrees(_)
JoinTrees(n) ==
    IF n = 1 THEN JoinLeaves
    ELSE UNION {UNION {JoinNodes(l, r) : l \in JoinTrees(i), r \in JoinTrees(n - i)} :
                i \in 1..(n - 1)}

InitJoin ==
    /\ expr \in UNION {JoinTrees(n) : n \in 2..MaxJoinTables}
    /\ table_aliases = MakeAliases(EmptyContext, RootTables(expr))
    /\ queries = <<>>
    /\ select = NoSelect
    /\ result = NotRun
    /\ calls = 0

JoinGetResult ==
    /\ calls = 0
    /\ calls' = 1
    /\ result' = Outcome("get_result", JoinFormatter_get_result(table_aliases, expr))
    /\ UNCHANGED <<expr, table_aliases, queries, select>>

NextJoin == JoinGetResult

SpecJoin == InitJoin /\ [][NextJoin]_vars

\* A left-leaning chain: the right child of no join node is a join.
RECURSIVE IsLeftChain(_)
IsLeftChain(e) ==
    /\ ~IsJoin(e.right)
    /\ IsJoin(e.left) => IsLeftChain(e.left)

RECURSIVE JoinedTables(_)
JoinedTables(e) ==
    IF IsJoin(e) THEN JoinedTables(e.left) \cup JoinedTables(e.right) ELSE {e}

RECURSIVE JoinPredicates(_)
JoinPredicates(e) ==
    IF IsJoin(e)
    THEN Range(e.predicates) \cup JoinPredicates(e.left) \cup JoinPredicates(e.right)
    ELSE {}

RECURSIVE HasParameter(_)
HasParameter(e) ==
    IF e.kind = "Parameter" THEN TRUE
    ELSE IF "arg" \in DOMAIN e THEN HasParameter(e.arg)
    ELSE IF "left" \in DOMAIN e THEN HasParameter(e.left) \/ HasParameter(e.right)
    ELSE FALSE

AllTablesNamed(e) == \A t \in JoinedTables(e) : t.name /= NoneValue
AllPredicatesTranslate(e) == \A q \in JoinPredicates(e) : ~HasParameter(q)

\* C7 as stated: the join formatter returns a fragment if and only if the tree
\* is a left-leaning chain, and any other tree fails with Unsupported.
C7_FragmentIffLeftChain ==
    calls = 1 =>
        /\ result.ok <=> IsLeftChain(expr)
        /\ ~IsLeftChain(expr) => (~result.ok /\ result.err = "NotImplementedError")

\* C7 as amended: the join formatter returns a fragment if and only if the
\* tree is a left-leaning chain whose tables all have a name and whose
\* predicates all translate.  A tree that is no left-leaning chain fails with
\* Unsupported, whatever its tables; a left-leaning chain with a table without
\* a name fails with RelationError, and one with named tables and a Parameter in
\* a predicate with Unsupported.
C7_FragmentIffNamedLeftChain ==
    calls = 1 =>
        /\ result.ok <=>
              (IsLeftChain(expr) /\ AllTablesNamed(expr) /\ AllPredicatesTranslate(expr))
        /\ ~IsLeftChain(expr) => (~result.ok /\ result.err = "NotImplementedError")
        /\ (IsLeftChain(expr) /\ ~AllTablesNamed(expr)) =>
              (~result.ok /\ result.err = "RelationError")
        /\ (IsLeftChain(expr) /\ AllTablesNamed(expr) /\ ~AllPredicatesTranslate(expr)) =>
              (~result.ok /\ result.err = "NotImplementedError")

\* The formatter has refused a tree whose root has a join on the left only and,
\* one level down the left spine, a node with a join on its right.
C7_Witness ==
    /\ calls = 1
    /\ IsJoin(expr.left)
    /\ ~IsJoin(expr.right)
    /\ IsJoin(expr.left.right)
    /\ ~result.ok
    /\ result.err = "NotImplementedError"

-----------------------------------------------------------------------------
(* SpecSelect: the clause formatters on a Select *)

\* The length of the select_set and of the group_by of a Select made by hand.
MaxListLen == 2

NoExpr == [kind |-> "NoExpr"]

\* The entries of the lists: two columns, an aggregate, and a second object
\* for the first column.
SelectEntries == {ColA, ColB, SumOf(ColB, "total"), Object(ColA, 2)}

RECURSIVE SeqsOfLen(_, _)
SeqsOfLen(S, n) ==
    IF n = 0 THEN {<<>>}
    ELSE {Append(q, x) : q \in SeqsOfLen(S, n - 1), x \in S}

SeqsUpTo(S, n) == UNION {SeqsOfLen(S, k) : k \in 0..n}

\* Selects made by the constructor, of every select_set and group_by.
HandMadeSelects ==
    {Select(TableA, select_set, NoneValue, Some(group_by), NoneValue, NoneValue,
            NoneValue, NoneValue, TableA) :
        select_set \in SeqsUpTo(SelectEntries, MaxListLen),
        group_by \in SeqsUpTo(SelectEntries, MaxListLen)}

\* A Select is made by hand, or by the builder from an Aggregation.
InitSelect ==
    /\ \/ /\ expr = NoExpr
          /\ select \in HandMadeSelects
       \/ /\ expr \in AggregationInputs
          /\ select = _build_select(expr, expr).v
    /\ table_aliases = EmptyContext
    /\ queries = <<>>
    /\ result = NotRun
    /\ calls = 0

\* select.format_group_by(context)
FormatGroupBy ==
    /\ calls = 0
    /\ calls' = 1
    /\ result' = Outcome("format_group_by", format_group_by(select, table_aliases))
    /\ UNCHANGED <<expr, table_aliases, queries, select>>

NextSelect == FormatGroupBy

SpecSelect == InitSelect /\ [][NextSelect]_vars

\* The members of group_by are the first entries of select_set, in order.
GroupByIsPrefix(sel) ==
    /\ Len(sel.group_by) <= Len(sel.select_set)
    /\ \A i \in 1..Len(sel.group_by) : sel.select_set[i] = sel.group_by[i]

\* C8: the group-by prefix law.  For a Select with group keys, format_group_by
\* either emits GROUP BY 1, ..., k with k = |group_by| and the keys the first k
\* entries of select_set, or fails with InternalError; and the Select the
\* builder makes from an Aggregation has its keys as the prefix of select_set.
C8_GroupByPrefixLaw ==
    /\ (calls = 1 /\ Len(select.group_by) > 0) =>
          \/ /\ result.ok
             /\ ~result.isNone
             /\ result.s = "GROUP BY "
                    \o Concat([i \in 1..Len(select.group_by) |-> ToString(i)], ", ")
             /\ GroupByIsPrefix(select)
          \/ /\ ~result.ok
             /\ result.err = "InternalError"
    /\ expr.kind = "Aggregation" => GroupByIsPrefix(select)

-----------------------------------------------------------------------------
(* SpecChain: _JoinFormatter(context, expr).get_result() on left-leaning     *)
(* chains of joins over tables that can be told apart                        *)

\* The number of tables of a chain.
MaxChainTables == 3

ChainLeaves == {TableA, TableB, TableC, Unnamed}

\* The joins tried at a node of a chain: an inner join on one predicate that
\* names the right table, a cross join without predicates, and a left join on
\* two predicates.
ChainNodes(l, r) ==
    {JoinOn("InnerJoin", l, r,
            <<BinaryNode("Equals", "boolean", KeyOf(TableA), KeyOf(r))>>),
     JoinOn("CrossJoin", l, r, <<>>),
     JoinOn("LeftJoin", l, r,
            <<BinaryNode("Equals", "boolean", KeyOf(TableA), KeyOf(r)),
              BinaryNode("Greater", "boolean", KeyOf(r),
                         [kind |-> "Literal", type |-> "int8", value |-> 0])>>)}

\* The left-leaning chains over n tables.
RECURSIVE Chains(_)
Chains(n) ==
    IF n = 1 THEN ChainLeaves
    ELSE UNION {ChainNodes(l, r) : l \in Chains(n - 1), r \in ChainLeaves}

InitChain ==
    /\ expr \in UNION {Chains(n) : n \in 2..MaxChainTables}
    /\ table_aliases = MakeAliases(EmptyContext, RootTables(expr))
    /\ queries = <<>>
    /\ select = NoSelect
    /\ result = NotRun
    /\ calls = 0

SpecChain == InitChain /\ [][NextJoin]_vars

\* The tables T0..Tn of a chain, T0 and T1 the children of the innermost join.
RECURSIVE ChainTables(_)
ChainTables(e) ==
    IF IsJoin(e.left) THEN Append(ChainTables(e.left), e.right)
    ELSE <<e.left, e.right>>

\* The join nodes of a chain, innermost first: node i has T(i) as right child
\* (counting the tables from T0).
RECURSIVE ChainJoins(_)
ChainJoins(e) ==
    IF IsJoin(e.left) THEN Append(ChainJoins(e.left), e) ELSE <<e>>

\* The lines the claim gives the join node j: the kind and the table on one
\* line and, if the node has predicates, its predicates on an ON line.
ExpectedJoinLines(ctx, j) ==
    "\n  " \o _join_names[j.kind] \o " " \o _format_table(ctx, j.right).s
        \o (IF Len(j.predicates) = 0 THEN ""
            ELSE "\n    ON "
                 \o Concat([i \in 1..Len(j.predicates) |->
                               translate_expr(j.predicates[i], ctx, FALSE).s],
                           " AND\n       "))

\* C11: join linearization order.  For a left-leaning chain of n joins over
\* named tables T0..Tn, the walk leaves join_tables = [T0, ..., Tn] and
\* join_types and join_predicates of length n, entry i the kind and the
\* predicates of the join node whose right child is T(i + 1); the fragment is
\* T0 followed, per join node from the innermost out, by the line of its kind
\* and right table and by an ON line of its own predicates exactly when it has
\* predicates.
C11_JoinLinearizationOrder ==
    (calls = 1 /\ IsLeftChain(expr) /\ AllTablesNamed(expr)) =>
        LET tables == ChainTables(expr)
            joins == ChainJoins(expr)
            n == Len(joins)
        IN  /\ result.ok
            /\ Len(tables) = n + 1
            /\ result.join_tables =
                   [i \in 1..(n + 1) |-> _format_table(table_aliases, tables[i]).s]
            /\ result.join_types = [i \in 1..n |-> _join_names[joins[i].kind]]
            /\ result.join_predicates = [i \in 1..n |-> joins[i].predicates]
            /\ \A i \in 1..n : joins[i].right = tables[i + 1]
            /\ result.s = _format_table(table_aliases, tables[1]).s
                   \o Concat([i \in 1..n |-> ExpectedJoinLines(table_aliases, joins[i])], "")

\* A chain of two joins over three different named tables has been formatted,
\* the inner join with predicates and the outer one without.
C11_Witness ==
    /\ calls = 1
    /\ result.ok
    /\ IsJoin(expr.left)
    /\ Cardinality(JoinedTables(expr)) = 3
    /\ Len(expr.left.predicates) > 0
    /\ Len(expr.predicates) = 0

-----------------------------------------------------------------------------
(* SpecCompile: Select.compile() on Selects of every combination of clauses  *)

\* The Selects compiled: over a table, a join and a table without a name; with
\* a star, a short and a long select list (the long one does not fit on one
\* line of max_length characters); without and with predicates, group keys,
\* sort keys, a limit and an offset.
CompiledSelects ==
    {Select(table_set, select_set, where_, group_by, order_by, limit, NoneValue,
            NoneValue, table_set) :
        table_set \in {TableA, InnerJoin(TableA, TableB, TableA, TableB), Unnamed},
        select_set \in {<<TableA>>, <<ColA, SumOf(ColB, "total")>>,
                        <<ColA, SumOf(ColB, "x\ny")>>,
                        <<ColA, SumOf(ColB, "total_of_b"), SumOf(ColA, "total_of_a"),
                          SumOf(ColB, "another_total_of_b"),
                          SumOf(ColA, "another_total_of_a")>>},
        where_ \in {NoneValue, Some(<<PredA>>), Some(<<PredA, PredA>>),
                    Some(<<Parameter, PredA>>)},
        group_by \in {NoneValue, Some(<<ColA>>)},
        order_by \in {NoneValue, Some(<<[expr |-> ColA, ascending |-> FALSE]>>),
                      Some(<<[expr |-> ColA, ascending |-> TRUE],
                             [expr |-> ColB, ascending |-> FALSE]>>)},
        limit \in {NoneValue, Some([n |-> 10, offset |-> NoneValue]),
                   Some([n |-> 10, offset |-> Some(5)])}}

InitCompile ==
    /\ expr = NoExpr
    /\ select \in CompiledSelects
    /\ table_aliases = EmptyContext
    /\ queries = <<>>
    /\ result = NotRun
    /\ calls = 0

\* select.compile(): a fresh context, populate_context, then the formatters
CompileSelect ==
    /\ calls = 0
    /\ calls' = 1
    /\ table_aliases' = populate_context(select, EmptyContext)
    /\ result' = Outcome("compile", Render(select, table_aliases'))
    /\ UNCHANGED <<expr, queries, select>>

NextCompile == CompileSelect

SpecCompile == InitCompile /\ [][NextCompile]_vars

ClauseKeywords == <<"SELECT ", "FROM ", "WHERE ", "GROUP BY ", "ORDER BY ", "LIMIT ">>

StartsWith(line, word) ==
    Len(line) >= Len(word) /\ SubSeq(line, 1, Len(word)) = word

\* The keyword a line opens with: 0 for a line that continues a clause.
KeywordOf(line) ==
    IF \E k \in 1..Len(ClauseKeywords) : StartsWith(line, ClauseKeywords[k])
    THEN CHOOSE k \in 1..Len(ClauseKeywords) : StartsWith(line, ClauseKeywords[k])
    ELSE 0

\* The keywords of the lines of a query that open a clause, in order.
KeywordsOf(text) ==
    LET lines == SplitLines(text)
        opening == SelectSeq(lines, LAMBDA l : KeywordOf(l) /= 0)
    IN  [i \in 1..Len(opening) |-> KeywordOf(opening[i])]

\* The clauses the claim says are present, as indices of ClauseKeywords.
PresentClauses(sel) ==
    <<1, 2>>
        \o (IF Len(sel.where) > 0 THEN <<3>> ELSE <<>>)
        \o (IF Len(sel.group_by) > 0 THEN <<4>> ELSE <<>>)
        \o (IF Len(sel.order_by) > 0 THEN <<5>> ELSE <<>>)
        \o (IF ~sel.limit.isNone THEN <<6>> ELSE <<>>)

\* The number of empty lines of a text.
EmptyLines(text) ==
    Cardinality({i \in 1..Len(SplitLines(text)) : Len(SplitLines(text)[i]) = 0})

\* The LIMIT line the claim gives a limit: OFFSET only with an offset.
LimitLine(limit) ==
    "LIMIT " \o ToString(limit.n)
        \o (IF limit.offset.isNone THEN "" ELSE " OFFSET " \o ToString(limit.offset.v))

\* C14: clause ordering of Select.compile.  The query compile returns is the
\* present clauses joined by line breaks in the order SELECT, FROM, WHERE,
\* GROUP BY, ORDER BY, LIMIT: SELECT and FROM always, WHERE iff where is not
\* empty, GROUP BY iff group_by is not empty, ORDER BY iff order_by is not
\* empty, LIMIT iff limit is not null, with OFFSET only for an offset that is
\* not null; an absent clause adds no line (the only empty lines of the query
\* are those of the SELECT clause itself, which ends in a line break when its
\* last entry holds one), and the postamble is absent exactly when order_by is
\* empty and limit is null.
C14_ClauseOrdering ==
    (calls = 1 /\ result.ok) =>
        LET lines == SplitLines(result.s)
        IN  /\ KeywordsOf(result.s) = PresentClauses(select)
            /\ KeywordOf(lines[1]) = 1
            /\ EmptyLines(result.s) = EmptyLines(result.clauses[2].s)
            /\ ~select.limit.isNone => lines[Len(lines)] = LimitLine(select.limit.v)
            /\ result.clauses[6].isNone
                   <=> (Len(select.order_by) = 0 /\ select.limit.isNone)

\* A Select with predicates, a group key, sort keys, a limit and an offset has
\* been compiled to a query.
C14_Witness ==
    /\ calls = 1
    /\ result.ok
    /\ result.call = "compile"
    /\ Len(select.where) > 1
    /\ Len(select.group_by) > 0
    /\ Len(select.order_by) > 1
    /\ ~select.limit.isNone
    /\ ~select.limit.v.offset.isNone
    /\ IsJoin(select.table_set)

-----------------------------------------------------------------------------
(* SpecEquals: a.equals(b) on two Selects                                    *)

\* The Selects compared: one or two entries in select_set, and where,
\* group_by and having empty or of one entry; two tables; two limits.
ComparedSelects ==
    {Select(table_set, select_set, Some(where_), Some(group_by), NoneValue, limit,
            Some(having), NoneValue, table_set) :
        table_set \in {TableA, TableB},
        select_set \in {<<ColA>>, <<ColA, ColB>>},
        where_ \in {<<>>, <<PredA>>},
        group_by \in {<<>>, <<ColA>>},
        having \in {<<>>, <<PredA>>},
        limit \in {NoneValue, Some([n |-> 10, offset |-> NoneValue])}}

\* queries holds the two Selects, a then b.
InitEquals ==
    /\ expr = NoExpr
    /\ select = NoSelect
    /\ table_aliases = EmptyContext
    /\ queries \in {<<a, b>> : a \in ComparedSelects, b \in ComparedSelects}
    /\ result = NotRun
    /\ calls = 0

\* queries[0].equals(queries[1])
Equals ==
    /\ calls = 0
    /\ calls' = 1
    /\ result' = Outcome("equals", Returned(equals(queries[1], queries[2])))
    /\ UNCHANGED <<expr, table_aliases, queries, select>>

NextEquals == Equals

SpecEquals == InitEquals /\ [][NextEquals]_vars

\* The fields equals is said to compare.
ComparedFields ==
    {"select_set", "table_set", "where", "group_by", "having", "order_by", "subqueries"}

\* C15: Select.equals is structural equality over select_set, table_set, where,
\* group_by, having, order_by, subqueries and limit.  a.equals(b) is true
\* exactly when the limits are equal and each of the other fields has the same
\* elements in the same order in a and in b; equals is reflexive and symmetric.
C15_EqualsIsFieldwise ==
    calls = 1 =>
        LET a == queries[1]
            b == queries[2]
        IN  /\ result.v <=> (/\ a.limit = b.limit
                             /\ \A f \in ComparedFields : a[f] = b[f])
            /\ equals(a, a)
            /\ equals(a, b) <=> equals(b, a)

-----------------------------------------------------------------------------
(* SpecSteps: one run of Select.compile(), call by call.  calls counts the   *)
(* calls compile has made: populate_context, format_subqueries,              *)
(* format_select_set, format_table_set, format_where, format_group_by,       *)
(* format_postamble.  A call that raises ends the run.                       *)

\* The alias map after context.need_aliases(): len() of the map is read.
after_need_aliases(ctx) == ctx

\* get_alias binding the next alias to the table it is asked for
after_get_alias_binding(ctx, table_expr) == make_alias(ctx, table_expr)

\* The alias map after context.get_alias(table_expr): dict.get reads the map.
after_get_alias(ctx, table_expr) == ctx

\* The alias map after the lookup every emitter of an alias makes:
\* if context.need_aliases(): ... context.get_alias(table)
AfterLookup(ctx, table_expr) ==
    IF need_aliases(ctx)
    THEN after_get_alias(after_need_aliases(ctx), table_expr)
    ELSE after_need_aliases(ctx)

RECURSIVE AfterLookups(_, _)
AfterLookups(ctx, tables) ==
    IF Len(tables) = 0 THEN ctx
    ELSE AfterLookups(AfterLookup(ctx, Head(tables)), Tail(tables))

\* The tables of the column references translator.translate(e) reaches
\* (_trans_column_ref, one lookup each), in the order of the walk.  An operand
\* that raises ends the walk: the right operand of an infix operator is not
\* translated when the left one has raised.
RECURSIVE LookedUpBy(_, _)
LookedUpBy(ctx, e) ==
    IF e.kind = "TableColumn" THEN <<e.table>>
    ELSE IF e.kind \in DOMAIN _other_ops THEN LookedUpBy(ctx, e.value_expr)
    ELSE IF e.kind \in DOMAIN _binary_infix_ops
    THEN LookedUpBy(ctx, e.left)
         \o (IF translate(ctx, e.left).ok THEN LookedUpBy(ctx, e.right) ELSE <<>>)
    ELSE IF e.kind \in DOMAIN _unary_ops THEN LookedUpBy(ctx, e.arg)
    ELSE <<>>

\* The lookups of translate_expr over a list, up to the first expression that
\* raises.
RECURSIVE LookedUpByAll(_, _)
LookedUpByAll(ctx, exprs) ==
    IF Len(exprs) = 0 THEN <<>>
    ELSE LookedUpBy(ctx, Head(exprs))
         \o (IF translate_expr(Head(exprs), ctx, FALSE).ok
             THEN LookedUpByAll(ctx, Tail(exprs))
             ELSE <<>>)

\* The tables format_select_set looks up: a table entry itself, and the
\* tables of the columns of a value entry, up to the first entry that raises.
RECURSIVE SelectSetLookups(_, _)
SelectSetLookups(ctx, entries) ==
    IF Len(entries) = 0 THEN <<>>
    ELSE IF IsValueExpr(Head(entries))
    THEN LookedUpBy(ctx, Head(entries))
         \o (IF translate_expr(Head(entries), ctx, TRUE).ok
             THEN SelectSetLookups(ctx, Tail(entries))
             ELSE <<>>)
    ELSE <<Head(entries)>> \o SelectSetLookups(ctx, Tail(entries))

\* The walk so far: the tables _format_table has looked up, and whether the
\* walk is still running.
LookupTable(w, ctx, e) ==
    IF ~w.ok THEN w
    ELSE IF _format_table(ctx, e).ok THEN [w EXCEPT !.tables = Append(@, e)]
    ELSE [w EXCEPT !.ok = FALSE]

\* _walk_join_tree, for the tables it calls _format_table on
RECURSIVE WalkLookups(_, _, _)
WalkLookups(w, ctx, op) ==
    IF IsJoin(op.left) /\ IsJoin(op.right) THEN [w EXCEPT !.ok = FALSE]
    ELSE IF op.kind \notin DOMAIN _join_names THEN [w EXCEPT !.ok = FALSE]
    ELSE IF IsJoin(op.left)
    THEN LookupTable(WalkLookups(w, ctx, op.left), ctx, op.right)
    ELSE IF IsJoin(op.right) THEN [w EXCEPT !.ok = FALSE]
    ELSE LookupTable(LookupTable(w, ctx, op.left), ctx, op.right)

\* The tables the walk of a join tree looks up, up to the exception that ends it.
JoinTableLookups(ctx, op) ==
    WalkLookups([ok |-> TRUE, tables |-> <<>>], ctx, op).tables

RECURSIVE Flatten(_)
Flatten(lists) ==
    IF Len(lists) = 0 THEN <<>> ELSE Head(lists) \o Flatten(Tail(lists))

\* The tables of the columns of the join predicates: translated after the walk
\* has returned, join by join, up to the first predicate that raises.
JoinPredicateLookups(ctx, op) ==
    LET f == _walk_join_tree(NewJoinFormatter, ctx, op)
    IN  IF ~f.ok THEN <<>>
        ELSE LookedUpByAll(ctx, Flatten(f.join_predicates))

\* The tables format_table_set looks up.
JoinLookups(ctx, op) ==
    IF IsJoin(op) THEN JoinTableLookups(ctx, op) \o JoinPredicateLookups(ctx, op)
    ELSE IF _format_table(ctx, op).ok THEN <<op>>
    ELSE <<>>

SortKeyExprs(keys) == [i \in 1..Len(keys) |-> keys[i].expr]

InitSteps ==
    /\ expr = NoExpr
    /\ select \in CompiledSelects
    /\ table_aliases = EmptyContext
    /\ queries = <<>>
    /\ result = NotRun
    /\ calls = 0

\* self.populate_context(context)
StepPopulateContext ==
    /\ calls = 0
    /\ calls' = 1
    /\ table_aliases' = populate_context(select, table_aliases)
    /\ result' = Outcome("populate_context", Returned(NoneValue))
    /\ UNCHANGED <<expr, queries, select>>

\* with_frag = self.format_subqueries(context)
StepFormatSubqueries ==
    /\ calls = 1
    /\ result.ok
    /\ calls' = 2
    /\ table_aliases' = table_aliases
    /\ result' = Outcome("format_subqueries", Returned(format_subqueries(select, table_aliases)))
    /\ UNCHANGED <<expr, queries, select>>

\* select_frag = self.format_select_set(context)
StepFormatSelectSet ==
    /\ calls = 2
    /\ result.ok
    /\ calls' = 3
    /\ table_aliases' = AfterLookups(table_aliases, SelectSetLookups(table_aliases, select.select_set))
    /\ result' = Outcome("format_select_set", format_select_set(select, table_aliases))
    /\ UNCHANGED <<expr, queries, select>>

\* from_frag = self.format_table_set(context)
StepFormatTableSet ==
    /\ calls = 3
    /\ result.ok
    /\ calls' = 4
    /\ table_aliases' = AfterLookups(table_aliases, JoinLookups(table_aliases, select.table_set))
    /\ result' = Outcome("format_table_set", format_table_set(select, table_aliases))
    /\ UNCHANGED <<expr, queries, select>>

\* where_frag = self.format_where(context)
StepFormatWhere ==
    /\ calls = 4
    /\ result.ok
    /\ calls' = 5
    /\ table_aliases' = AfterLookups(table_aliases, LookedUpByAll(table_aliases, select.where))
    /\ result' = Outcome("format_where", format_where(select, table_aliases))
    /\ UNCHANGED <<expr, queries, select>>

\* groupby_frag = self.format_group_by(context)
StepFormatGroupBy ==
    /\ calls = 5
    /\ result.ok
    /\ calls' = 6
    /\ table_aliases' = table_aliases
    /\ result' = Outcome("format_group_by", format_group_by(select, table_aliases))
    /\ UNCHANGED <<expr, queries, select>>

\* order_frag = self.format_postamble(context)
StepFormatPostamble ==
    /\ calls = 6
    /\ result.ok
    /\ calls' = 7
    /\ table_aliases' = AfterLookups(table_aliases,
                                     LookedUpByAll(table_aliases, SortKeyExprs(select.order_by)))
    /\ result' = Outcome("format_postamble", format_postamble(select, table_aliases))
    /\ UNCHANGED <<expr, queries, select>>

NextSteps ==
    \/ StepPopulateContext
    \/ StepFormatSubqueries
    \/ StepFormatSelectSet
    \/ StepFormatTableSet
    \/ StepFormatWhere
    \/ StepFormatGroupBy
    \/ StepFormatPostamble

SpecSteps == InitSteps /\ [][NextSteps]_vars

\* C16: within one run of Select.compile the alias map changes only during
\* populate_context.  Every later call (format_subqueries, format_select_set,
\* format_table_set with the join formatter, format_where, format_group_by,
\* format_postamble, with every translate_expr they make) leaves the alias map
\* as it was, also when the call raises.
C16_AliasMapFrame ==
    [][calls >= 1 => table_aliases' = table_aliases]_vars

\* The run has passed format_table_set of a join with a context that needs
\* aliases, so get_alias has been called; or a formatter has raised after
\* populate_context bound an alias.
C16_Witness ==
    \/ /\ calls >= 4
       /\ IsJoin(select.table_set)
       /\ need_aliases(table_aliases)
       /\ result.ok
    \/ /\ calls >= 3
       /\ ~result.ok
       /\ table_aliases /= EmptyContext

=============================================================================
